---- MODULE Spec2Model ----
(***************************************************************************)
(* State-machine model of the request handlers of the e-commerce backend:  *)
(*   recommendations/views.py  general_recommendations,                    *)
(*                             personalized_recommendations,               *)
(*                             track_recommendation_interaction            *)
(*   reports/views.py          GenerateReportView, ReportDetailView,       *)
(*                             download_report, report_status,             *)
(*                             ReportScheduleView                          *)
(*   comparisons/views.py      compare_products                            *)
(*   products/views.py         similar_products, toggle_product_like       *)
(* Each handler is one atomic action; GenerateReportView.create,           *)
(* download_report and general_recommendations are also modelled statement *)
(* by statement, for the runs in which calls interleave.  The ORM tables   *)
(* are sequences of rows (the primary key of a row is its index), the      *)
(* cache is a map from key to an optional entry with an expiry time, and   *)
(* the clock `now` is advanced by Tick.  An optional value is a sequence   *)
(* of length <= 1.                                                         *)
(***************************************************************************)
EXTENDS Integers, Sequences, FiniteSets, TLC

VARIABLES
    now,          \* timezone.now(), in seconds
    cache,        \* django.core.cache: key -> optional [value, expires]
    sessions,     \* RecommendationSession rows
    results,      \* RecommendationResult rows
    reports,      \* GeneratedReport rows
    schedules,    \* ReportSchedule rows
    products,     \* Product rows: id -> optional [is_active]
    comparisons,  \* ProductComparison rows
    served,       \* history: key -> optional body answered by the call that filled the cache
    ntracks,      \* history: number of interactions recorded so far
    last,         \* the response of the last handler that ran as one step
    likes,        \* ProductLike rows: a set of [user, product]
    behavior_logs, \* UserBehaviorLog rows
    generating,   \* GenerateReportView.create calls in flight, step by step
    downloading,  \* download_report calls in flight, step by step
    recommending  \* general_recommendations calls in flight, step by step

vars == <<now, cache, sessions, results, reports, schedules, products,
          comparisons, served, ntracks, last, likes, behavior_logs,
          generating, downloading, recommending>>

-----------------------------------------------------------------------------
(* Bounds of the model *)

MaxNow == 900
TickStep == 450
MaxSessions == 2
MaxRecs == 2
MaxTracks == 2
MaxReports == 2
MaxDownloads == 2
MaxSchedules == 2
MaxComparisons == 2
MaxProductIds == 2
MaxLogs == 2
MaxGenerateCalls == 2
MaxDownloadCalls == 2
MaxRecommendCalls == 2

-----------------------------------------------------------------------------
(* Program constants *)

HTTP_200_OK == 200
HTTP_201_CREATED == 201
HTTP_400_BAD_REQUEST == 400
HTTP_404_NOT_FOUND == 404
HTTP_500_INTERNAL_SERVER_ERROR == 500

DEFAULT_LIMIT == 10
GENERAL_TTL == 900
PERSONALIZED_TTL == 300

-----------------------------------------------------------------------------
(* Value domains *)

None == <<>>
Some(x) == <<x>>
Value(opt) == opt[1]

Users == {1, 2}
ProductIds == {1, 2}
CatalogIds == {1, 2, 3}
Frequencies == {"daily", "weekly", "monthly", "quarterly", "yearly"}
Scores == {90}
RequestLimits == {None, Some(10), Some(5)}
ExcludeSets == {{}, {1}}
ClientSessionIds == {None}
TrackActions == {"click", "add_to_cart", "purchase", "view"}
ClientTimestamps == {None, Some(7)}

\* Variant: an answer with an empty list is also taken for a miss
TruthyEmptyListFalsy(opt) == opt # None /\ Value(opt).total_count > 0

\* Python truthiness of a cache.get() result: None is falsy, a stored
\* response dict (four keys) is truthy.
Truthy(opt) == opt # None

-----------------------------------------------------------------------------
(* The cache (django.core.cache) *)

\* validated_data.get('limit', 10)
Limit(reqLimit) == IF reqLimit = None THEN DEFAULT_LIMIT ELSE Value(reqLimit)

GeneralCacheKey(reqLimit) ==
    "general_recommendations_" \o ToString(Limit(reqLimit))

\* Variant: the personalized key is derived from the limit alone
PersonalizedCacheKeyLimitOnly(user, reqLimit) ==
    "personalized_recommendations_" \o ToString(Limit(reqLimit))

\* f"personalized_recommendations_{request.user.id}_{limit}"
PersonalizedCacheKey(user, reqLimit) ==
    "personalized_recommendations_" \o ToString(user) \o "_"
        \o ToString(Limit(reqLimit))

CacheKeys ==
    {GeneralCacheKey(l) : l \in RequestLimits}
        \cup {PersonalizedCacheKey(u, l) : u \in Users, l \in RequestLimits}

\* cache.get(key): the stored value while the entry has not expired
CacheGet(key) ==
    IF cache[key] # None /\ now < Value(cache[key]).expires
    THEN Some(Value(cache[key]).value)
    ELSE None

\* cache.set(key, value, timeout)
CacheSet(key, value, timeout) ==
    [cache EXCEPT ![key] = Some([value |-> value, expires |-> now + timeout])]

-----------------------------------------------------------------------------
(* RecommendationService: an ordered list of {product_id, score, algorithm}, *)
(* or an exception.                                                         *)

Recs(algorithm, exclude) ==
    [product_id : ProductIds \ exclude, score : Scores, algorithm : {algorithm}]

RecLists(algorithm, exclude) ==
    UNION {[1..n -> Recs(algorithm, exclude)] : n \in 0..MaxRecs}

-----------------------------------------------------------------------------
(* recommendations/views.py *)

\* RecommendationSession.objects.create(...)
NewSession(user, clientSid, type) ==
    [user |-> user, session_id |-> clientSid, recommendation_type |-> type]

\* Variant: position is the 0-based enumerate() index
NewResultZeroBased(sid, rec, idx) ==
    [session |-> sid,
     product_id |-> rec.product_id,
     score |-> rec.score,
     position |-> idx,
     algorithm_used |-> rec.algorithm,
     was_clicked |-> FALSE,
     click_timestamp |-> None,
     was_added_to_cart |-> FALSE,
     was_purchased |-> FALSE]

\* RecommendationResult.objects.create(...) inside the enumerate() loop
NewResult(sid, rec, idx) ==
    [session |-> sid,
     product_id |-> rec.product_id,
     score |-> rec.score,
     position |-> idx + 1,
     algorithm_used |-> rec.algorithm,
     was_clicked |-> FALSE,
     click_timestamp |-> None,
     was_added_to_cart |-> FALSE,
     was_purchased |-> FALSE]

\* for idx, rec in enumerate(recommendations): ...create(...)
StoreResults(sid, recs) ==
    results \o [i \in 1..Len(recs) |-> NewResult(sid, recs[i], i - 1)]

ResponseData(sid, recs, type, description) ==
    [session_id |-> sid,
     recommendations |-> recs,
     total_count |-> Len(recs),
     algorithm_info |-> [type |-> type, description |-> description]]

\* Variant: the cached copy names no session
CachedDataNoSession(responseData) == [responseData EXCEPT !.session_id = 0]

\* What cache.set stores on a miss
CachedData(responseData) == responseData

ErrorBody(msg) == [error |-> msg]

RecUnchanged ==
    UNCHANGED <<now, reports, schedules, products, comparisons, ntracks,
                likes, behavior_logs, generating, downloading, recommending>>

\* The body of both recommendation views after validation, for the cache
\* key, session owner, type and TTL of the view.
Recommend(op, key, owner, clientSid, type, description, algorithm, ttl, exclude, failMsg) ==
    LET cached == CacheGet(key) IN
    IF Truthy(cached)
    THEN /\ last' = [op |-> op, status |-> HTTP_200_OK,
                     body |-> Value(cached)]
         /\ UNCHANGED <<cache, sessions, results, served>>
    ELSE \/ \* the service raises: the broad handler answers 500
            /\ last' = [op |-> op,
                        status |-> HTTP_500_INTERNAL_SERVER_ERROR,
                        body |-> ErrorBody(failMsg)]
            /\ UNCHANGED <<cache, sessions, results, served>>
         \/ \E recs \in RecLists(algorithm, exclude) :
              LET sid == Len(sessions) + 1
                  data == ResponseData(sid, recs, type, description)
              IN /\ Len(sessions) < MaxSessions
                 /\ sessions' = Append(sessions, NewSession(owner, clientSid, type))
                 /\ results' = StoreResults(sid, recs)
                 /\ cache' = CacheSet(key, CachedData(data), ttl)
                 /\ served' = [served EXCEPT ![key] = Some(data)]
                 /\ last' = [op |-> op, status |-> HTTP_200_OK,
                             body |-> data]

\* general_recommendations(request); req.user = None for an anonymous request
GeneralRecommendations(req) ==
    /\ RecUnchanged
    /\ IF ~req.valid
       THEN /\ last' = [op |-> "general", status |-> HTTP_400_BAD_REQUEST,
                        body |-> ErrorBody("invalid")]
            /\ UNCHANGED <<cache, sessions, results, served>>
       ELSE Recommend("general", GeneralCacheKey(req.limit), req.user,
                      req.session_id, "general", "Trending and popular products",
                      "trending", GENERAL_TTL, req.exclude_products,
                      "Failed to generate recommendations")

\* personalized_recommendations(request); IsAuthenticated: req.user is a user
PersonalizedRecommendations(req) ==
    /\ RecUnchanged
    /\ IF ~req.valid
       THEN /\ last' = [op |-> "personalized",
                        status |-> HTTP_400_BAD_REQUEST,
                        body |-> ErrorBody("invalid")]
            /\ UNCHANGED <<cache, sessions, results, served>>
       ELSE Recommend("personalized",
                      PersonalizedCacheKey(Value(req.user), req.limit),
                      req.user, req.session_id, "personalized",
                      "Based on your preferences and behavior",
                      "collaborative", PERSONALIZED_TTL, req.exclude_products,
                      "Failed to generate personalized recommendations")

\* Variant: the lookup filters on product_id alone
MatchingResultsAnySession(sid, pid) ==
    {i \in 1..Len(results) : results[i].product_id = pid}

\* RecommendationResult.objects.get(session_id=..., product_id=...):
\* the primary keys of the rows that match
MatchingResults(sid, pid) ==
    {i \in 1..Len(results) :
        results[i].session = sid /\ results[i].product_id = pid}

\* Variant: every branch after 'click' falls through to the purchase flag
ApplyInteractionFallThrough(row, action, timestamp) ==
    IF action = "click"
    THEN [row EXCEPT !.was_clicked = TRUE, !.click_timestamp = Some(timestamp)]
    ELSE IF action = "add_to_cart"
    THEN [row EXCEPT !.was_added_to_cart = TRUE]
    ELSE [row EXCEPT !.was_purchased = TRUE]

\* The update of the found row for an action (lines 184-190)
ApplyInteraction(row, action, timestamp) ==
    IF action = "click"
    THEN [row EXCEPT !.was_clicked = TRUE, !.click_timestamp = Some(timestamp)]
    ELSE IF action = "add_to_cart"
    THEN [row EXCEPT !.was_added_to_cart = TRUE]
    ELSE IF action = "purchase"
    THEN [row EXCEPT !.was_purchased = TRUE]
    ELSE row

\* serializer.validated_data.get('timestamp', timezone.now())
InteractionTimestamp(reqTimestamp) ==
    IF reqTimestamp = None THEN now ELSE Value(reqTimestamp)

\* track_recommendation_interaction(request)
TrackRecommendationInteraction(req) ==
    LET found == MatchingResults(req.session_id, req.product_id)
        answer(status, body) ==
            last' = [op |-> "track", status |-> status, body |-> body]
    IN
    /\ UNCHANGED <<now, cache, sessions, reports, schedules, products,
                   comparisons, served, likes, behavior_logs, generating,
                   downloading, recommending>>
    /\ IF ~req.valid
       THEN /\ answer(HTTP_400_BAD_REQUEST, ErrorBody("invalid"))
            /\ UNCHANGED <<results, ntracks>>
       ELSE IF found = {}
       THEN \* DoesNotExist
            /\ answer(HTTP_404_NOT_FOUND, ErrorBody("Recommendation not found"))
            /\ UNCHANGED <<results, ntracks>>
       ELSE IF Cardinality(found) > 1
       THEN \* MultipleObjectsReturned reaches the broad handler
            /\ answer(HTTP_500_INTERNAL_SERVER_ERROR,
                      ErrorBody("Failed to track interaction"))
            /\ UNCHANGED <<results, ntracks>>
       ELSE LET i == CHOOSE j \in found : TRUE IN
            /\ ntracks < MaxTracks
            /\ results' = [results EXCEPT ![i] =
                   ApplyInteraction(results[i], req.action,
                                    InteractionTimestamp(req.timestamp))]
            /\ ntracks' = ntracks + 1
            /\ answer(HTTP_200_OK, [status |-> "success"])

-----------------------------------------------------------------------------
(* ReportGenerationService: {raw_data, ai_summary, visualizations}, where    *)
(* the view treats 'visualizations' as optional, or an exception.           *)

ServiceRaises == [raises |-> TRUE]

ReportData ==
    [raises : {FALSE}, raw_data : {"rows"}, ai_summary : {"summary"},
     visualizations : {None, Some("charts")}]

ReportOutcomes == {ServiceRaises} \cup ReportData

-----------------------------------------------------------------------------
(* reports/views.py *)

\* Variant: the row is created with status 'processing'
PendingReportProcessing(user) ==
    [generated_by |-> user,
     status |-> "processing",
     raw_data |-> None,
     ai_summary_text |-> None,
     visualizations |-> None,
     completed_at |-> None,
     download_count |-> 0,
     last_accessed |-> None]

\* GeneratedReport.objects.create(..., status='pending'); the fields the view
\* does not pass keep their unset default
PendingReport(user) ==
    [generated_by |-> user,
     status |-> "pending",
     raw_data |-> None,
     ai_summary_text |-> None,
     visualizations |-> None,
     completed_at |-> None,
     download_count |-> 0,
     last_accessed |-> None]

\* report_data.get('visualizations', {})
VisualizationsOf(data) ==
    IF data.visualizations = None THEN "{}" ELSE Value(data.visualizations)

\* Variant: the completion timestamp is not recorded
CompletedReportNoTimestamp(report, data) ==
    [report EXCEPT !.raw_data = Some(data.raw_data),
                   !.ai_summary_text = Some(data.ai_summary),
                   !.visualizations = Some(VisualizationsOf(data)),
                   !.status = "completed"]

\* The update of the report with the generated data (lines 63-68)
CompletedReport(report, data) ==
    [report EXCEPT !.raw_data = Some(data.raw_data),
                   !.ai_summary_text = Some(data.ai_summary),
                   !.visualizations = Some(VisualizationsOf(data)),
                   !.status = "completed",
                   !.completed_at = Some(now)]

\* The update of the report in the inner handler (lines 72-73)
FailedReport(report) == [report EXCEPT !.status = "failed"]

ReportsUnchanged ==
    UNCHANGED <<now, cache, sessions, results, schedules, products,
                comparisons, served, ntracks, likes, behavior_logs,
                generating, downloading, recommending>>

\* GenerateReportView.create(request), with the outcome of the service call
GenerateReport(req, outcome) ==
    /\ ReportsUnchanged
    /\ IF ~req.valid
       THEN \* is_valid(raise_exception=True) raises inside the outer try
            /\ last' = [op |-> "generate",
                        status |-> HTTP_500_INTERNAL_SERVER_ERROR,
                        body |-> ErrorBody("Failed to generate report")]
            /\ UNCHANGED reports
       ELSE LET report == PendingReport(req.user)
                id == Len(reports) + 1
            IN /\ Len(reports) < MaxReports
               /\ IF outcome.raises
                  THEN /\ reports' = Append(reports, FailedReport(report))
                       /\ last' = [op |-> "generate",
                                   status |-> HTTP_500_INTERNAL_SERVER_ERROR,
                                   body |-> ErrorBody("Report generation failed")]
                  ELSE /\ reports' = Append(reports, CompletedReport(report, outcome))
                       /\ last' = [op |-> "generate",
                                   status |-> HTTP_201_CREATED,
                                   body |-> [id |-> id, status |-> "completed"]]

\* ReportDetailView.get_queryset / get_object
OwnReport(user, id) ==
    id \in 1..Len(reports) /\ reports[id].generated_by = user

\* ReportDetailView.retrieve(request)
RetrieveReport(req) ==
    /\ ReportsUnchanged
    /\ IF ~OwnReport(req.user, req.report_id)
       THEN /\ last' = [op |-> "retrieve", status |-> HTTP_404_NOT_FOUND,
                        body |-> ErrorBody("Not found.")]
            /\ UNCHANGED reports
       ELSE /\ reports' = [reports EXCEPT ![req.report_id].last_accessed = Some(now)]
            /\ last' = [op |-> "retrieve", status |-> HTTP_200_OK,
                        body |-> [id |-> req.report_id,
                                  status |-> reports[req.report_id].status]]

\* Variant: the lookup does not filter on the status
DownloadableAnyStatus(user, id) ==
    id \in 1..Len(reports) /\ reports[id].generated_by = user

\* get_object_or_404(GeneratedReport, id=report_id, generated_by=request.user,
\*                   status='completed') finds a row
Downloadable(user, id) ==
    /\ id \in 1..Len(reports)
    /\ reports[id].generated_by = user
    /\ reports[id].status = "completed"

\* Variant: the counter is set instead of incremented
DownloadedOnce(report) ==
    [report EXCEPT !.download_count = 1, !.last_accessed = Some(now)]

\* The update of the download count (lines 140-142)
Downloaded(report) ==
    [report EXCEPT !.download_count = @ + 1, !.last_accessed = Some(now)]

\* download_report(request, report_id); format 'json' or the CSV default
DownloadReport(req) ==
    /\ ReportsUnchanged
    /\ IF ~Downloadable(req.user, req.report_id)
       THEN \* Http404 is an Exception: the broad handler answers 500
            /\ last' = [op |-> "download",
                        status |-> HTTP_500_INTERNAL_SERVER_ERROR,
                        body |-> ErrorBody("Failed to download report")]
            /\ UNCHANGED reports
       ELSE /\ reports[req.report_id].download_count < MaxDownloads
            /\ reports' = [reports EXCEPT ![req.report_id] = Downloaded(@)]
            /\ last' = [op |-> "download", status |-> HTTP_200_OK,
                        body |-> [file |-> req.format, report |-> req.report_id]]

\* report_status(request, report_id)
ReportStatus(req) ==
    /\ ReportsUnchanged
    /\ UNCHANGED reports
    /\ IF ~OwnReport(req.user, req.report_id)
       THEN last' = [op |-> "status", status |-> HTTP_500_INTERNAL_SERVER_ERROR,
                     body |-> ErrorBody("Failed to get report status")]
       ELSE last' = [op |-> "status", status |-> HTTP_200_OK,
                     body |-> [id |-> req.report_id,
                               status |-> reports[req.report_id].status,
                               progress |->
                                   IF reports[req.report_id].status = "completed"
                                   THEN 100
                                   ELSE IF reports[req.report_id].status = "processing"
                                   THEN 50 ELSE 0]]

-----------------------------------------------------------------------------
(* reports/views.py: ReportScheduleView *)

\* datetime.timedelta(days=n), in seconds
Days(n) == n * 24 * 60 * 60

\* datetime.timedelta(weeks=n), in seconds
Weeks(n) == Days(7 * n)

\* Variant: the weekly branch adds timedelta(days=1)
NextRunWeeklyAsDaily(frequency) ==
    IF frequency = "daily" THEN now + Days(1)
    ELSE IF frequency = "weekly" THEN now + Days(1)
    ELSE IF frequency = "monthly" THEN now + Days(30)
    ELSE IF frequency = "quarterly" THEN now + Days(90)
    ELSE now + Days(1)

\* The next run time computed by perform_create (lines 225-237)
NextRun(frequency) ==
    IF frequency = "daily" THEN now + Days(1)
    ELSE IF frequency = "weekly" THEN now + Weeks(1)
    ELSE IF frequency = "monthly" THEN now + Days(30)
    ELSE IF frequency = "quarterly" THEN now + Days(90)
    ELSE now + Days(1)

\* ReportSchedule.created_at of a row saved now
CreatedAt == now

\* serializer.save(user=self.request.user, next_run=next_run)
NewSchedule(user, frequency) ==
    [user |-> user, frequency |-> frequency, created_at |-> CreatedAt,
     next_run |-> NextRun(frequency)]

SchedulesUnchanged ==
    UNCHANGED <<now, cache, sessions, results, reports, products, comparisons,
                served, ntracks, likes, behavior_logs, generating,
                downloading, recommending>>

\* ReportScheduleView POST: perform_create(serializer) once the serializer
\* has accepted the data
CreateSchedule(req) ==
    /\ SchedulesUnchanged
    /\ IF ~req.valid
       THEN /\ last' = [op |-> "schedule", status |-> HTTP_400_BAD_REQUEST,
                        body |-> ErrorBody("invalid")]
            /\ UNCHANGED schedules
       ELSE /\ Len(schedules) < MaxSchedules
            /\ schedules' = Append(schedules, NewSchedule(req.user, req.frequency))
            /\ last' = [op |-> "schedule", status |-> HTTP_201_CREATED,
                        body |-> [id |-> Len(schedules) + 1]]

\* ReportScheduleView GET: get_queryset()
ListSchedules(user) ==
    /\ SchedulesUnchanged
    /\ UNCHANGED schedules
    /\ last' = [op |-> "schedules", status |-> HTTP_200_OK,
                body |-> [ids |-> {i \in 1..Len(schedules) : schedules[i].user = user}]]

-----------------------------------------------------------------------------
(* ComparisonService.compare_products: {criteria, analysis}, or an exception *)

ComparisonResults ==
    [raises : {FALSE}, criteria : {"price"}, analysis : {"first is cheaper"}]

ComparisonOutcomes == {ServiceRaises} \cup ComparisonResults

-----------------------------------------------------------------------------
(* comparisons/views.py *)

\* len(product_ids)
SubmittedCount(productIds) == Len(productIds)

\* Variant: the filter does not test is_active
ActiveProductsAnyState(productIds) ==
    {p \in DOMAIN products :
        /\ \E i \in 1..Len(productIds) : productIds[i] = p
        /\ products[p] # None}

\* Product.objects.filter(id__in=product_ids, is_active=True): the ids of
\* the rows of the queryset
ActiveProducts(productIds) ==
    {p \in DOMAIN products :
        /\ \E i \in 1..Len(productIds) : productIds[i] = p
        /\ products[p] # None
        /\ Value(products[p]).is_active}

\* ProductComparison.objects.create(...); comparison.products.set(products)
NewComparison(user, result, productSet) ==
    [user |-> user,
     comparison_criteria |-> result.criteria,
     ai_analysis |-> result.analysis,
     products |-> productSet]

ComparisonsUnchanged ==
    UNCHANGED <<now, cache, sessions, results, reports, schedules, products,
                served, ntracks, likes, behavior_logs, generating,
                downloading, recommending>>

\* compare_products(request), with the outcome of the service call
CompareProducts(req, outcome) ==
    LET found == ActiveProducts(req.product_ids)
        answer(status, body) ==
            last' = [op |-> "compare", status |-> status, body |-> body,
                     product_ids |-> req.product_ids]
    IN
    /\ ComparisonsUnchanged
    /\ IF ~req.valid
       THEN /\ answer(HTTP_400_BAD_REQUEST, ErrorBody("invalid"))
            /\ UNCHANGED comparisons
       ELSE IF Cardinality(found) # SubmittedCount(req.product_ids)
       THEN /\ answer(HTTP_404_NOT_FOUND,
                      ErrorBody("One or more products not found or inactive"))
            /\ UNCHANGED comparisons
       ELSE IF outcome.raises
       THEN /\ answer(HTTP_500_INTERNAL_SERVER_ERROR,
                      ErrorBody("Failed to compare products"))
            /\ UNCHANGED comparisons
       ELSE /\ Len(comparisons) < MaxComparisons
            /\ comparisons' = Append(comparisons,
                                     NewComparison(req.user, outcome, found))
            /\ answer(HTTP_201_CREATED,
                      [id |-> Len(comparisons) + 1, products |-> found])

-----------------------------------------------------------------------------
(* products/views.py: a product is looked up by its slug, which identifies  *)
(* the row as its id does; the model uses the one key for both.             *)

\* get_object_or_404(Product, slug=slug, is_active=True) finds a row
ActiveProduct(slug) ==
    /\ slug \in DOMAIN products
    /\ products[slug] # None
    /\ Value(products[slug]).is_active

\* UserBehaviorLog.objects.create(...)
NewBehaviorLog(user, slug, liked) ==
    [user |-> user, product |-> slug,
     action_type |-> IF liked THEN "like" ELSE "dislike"]

\* RecommendationService.get_similar_products: a list of products, or an
\* exception
SimilarOutcomes ==
    {ServiceRaises} \cup [raises : {FALSE}, similar : SUBSET ProductIds]

ProductsUnchanged ==
    UNCHANGED <<now, cache, sessions, results, reports, schedules, products,
                comparisons, served, ntracks, generating, downloading,
                recommending>>

\* toggle_product_like(request, slug)
ToggleProductLike(req) ==
    LET like == [user |-> req.user, product |-> req.slug]
        created == like \notin likes
    IN
    /\ ProductsUnchanged
    /\ IF ~ActiveProduct(req.slug)
       THEN \* Http404 is an Exception: the broad handler answers 500
            /\ last' = [op |-> "like", status |-> HTTP_500_INTERNAL_SERVER_ERROR,
                        body |-> ErrorBody("Failed to toggle like")]
            /\ UNCHANGED <<likes, behavior_logs>>
       ELSE /\ Len(behavior_logs) < MaxLogs
            /\ likes' = IF created THEN likes \cup {like} ELSE likes \ {like}
            /\ behavior_logs' =
                   Append(behavior_logs, NewBehaviorLog(req.user, req.slug, created))
            /\ last' = [op |-> "like", status |-> HTTP_200_OK,
                        body |-> [liked |-> created]]

\* similar_products(request, slug), with the outcome of the service call
SimilarProducts(req, outcome) ==
    /\ ProductsUnchanged
    /\ UNCHANGED <<likes, behavior_logs>>
    /\ IF ~ActiveProduct(req.slug) \/ outcome.raises
       THEN \* Http404 and a service exception both reach the broad handler
            last' = [op |-> "similar", status |-> HTTP_500_INTERNAL_SERVER_ERROR,
                     body |-> ErrorBody("Failed to get similar products")]
       ELSE last' = [op |-> "similar", status |-> HTTP_200_OK,
                     body |-> [product |-> req.slug,
                               similar_products |-> outcome.similar]]

-----------------------------------------------------------------------------
(* reports/views.py, statement by statement: each call in flight keeps its  *)
(* own in-memory `report` object between its reads and writes of the table, *)
(* and the calls' steps interleave.                                         *)

GenerateCalls == 1..MaxGenerateCalls
DownloadCalls == 1..MaxDownloadCalls

\* A call that has not started: no object in memory, no response yet
IdleCall == [pc |-> "idle", report_id |-> 0, report |-> None, data |-> None,
             status |-> 0]

\* The dict returned by generate_report: each key may be present or absent
ReturnedDicts ==
    [raises : {FALSE}, raw_data : {None, Some("rows")},
     ai_summary : {None, Some("summary")},
     visualizations : {Some("charts")}]

ReturnedOutcomes == {ServiceRaises} \cup ReturnedDicts

\* report_data['raw_data'], report_data['ai_summary'] of a dict holding both
Subscripted(dict) ==
    [raw_data |-> Value(dict.raw_data),
     ai_summary |-> Value(dict.ai_summary),
     visualizations |-> dict.visualizations]

StepsUnchanged ==
    UNCHANGED <<now, cache, sessions, results, schedules, products,
                comparisons, served, ntracks, last, likes, behavior_logs,
                recommending>>

\* Lines 36-48: validation and GeneratedReport.objects.create(status='pending')
GenerateCreate(p, req) ==
    /\ generating[p].pc = "idle"
    /\ StepsUnchanged
    /\ UNCHANGED downloading
    /\ IF ~req.valid
       THEN \* is_valid(raise_exception=True) raises inside the outer try
            /\ generating' = [generating EXCEPT ![p] =
                   [@ EXCEPT !.pc = "done",
                             !.status = HTTP_500_INTERNAL_SERVER_ERROR]]
            /\ UNCHANGED reports
       ELSE /\ Len(reports) < MaxReports
            /\ reports' = Append(reports, PendingReport(req.user))
            /\ generating' = [generating EXCEPT ![p] =
                   [@ EXCEPT !.pc = "call",
                             !.report_id = Len(reports) + 1,
                             !.report = Some(PendingReport(req.user))]]

\* Lines 52-60: the service call returns a dict or raises
GenerateCall(p, outcome) ==
    /\ generating[p].pc = "call"
    /\ StepsUnchanged
    /\ UNCHANGED <<reports, downloading>>
    /\ generating' = [generating EXCEPT ![p] =
           IF outcome.raises
           THEN [@ EXCEPT !.pc = "except"]
           ELSE [@ EXCEPT !.pc = "assign", !.data = Some(outcome)]]

\* Lines 63-67: the assignments to the in-memory report; a subscript of an
\* absent key raises KeyError after the assignments before it
GenerateAssign(p) ==
    LET report == Value(generating[p].report)
        dict == Value(generating[p].data)
    IN
    /\ generating[p].pc = "assign"
    /\ StepsUnchanged
    /\ UNCHANGED <<reports, downloading>>
    /\ generating' = [generating EXCEPT ![p] =
           IF dict.raw_data = None
           THEN [@ EXCEPT !.pc = "except"]
           ELSE IF dict.ai_summary = None
           THEN [@ EXCEPT !.pc = "except",
                          !.report = Some([report EXCEPT
                                              !.raw_data = dict.raw_data])]
           ELSE [@ EXCEPT !.pc = "save",
                          !.report = Some(CompletedReport(report,
                                                          Subscripted(dict)))]]

\* Line 68: report.save() writes every field of the in-memory report, or
\* raises; lines 80-81 answer 201
GenerateSave(p, saved) ==
    /\ generating[p].pc = "save"
    /\ StepsUnchanged
    /\ UNCHANGED downloading
    /\ IF saved
       THEN /\ reports' = [reports EXCEPT ![generating[p].report_id] =
                              Value(generating[p].report)]
            /\ generating' = [generating EXCEPT ![p] =
                   [@ EXCEPT !.pc = "done", !.status = HTTP_201_CREATED]]
       ELSE /\ UNCHANGED reports
            /\ generating' = [generating EXCEPT ![p] = [@ EXCEPT !.pc = "except"]]

\* Lines 70-78: the inner handler marks the in-memory report failed and
\* saves it; when that save raises, the outer handler (lines 83-88) answers
GenerateExcept(p, saved) ==
    LET failed == FailedReport(Value(generating[p].report)) IN
    /\ generating[p].pc = "except"
    /\ StepsUnchanged
    /\ UNCHANGED downloading
    /\ generating' = [generating EXCEPT ![p] =
           [@ EXCEPT !.pc = "done", !.report = Some(failed),
                     !.status = HTTP_500_INTERNAL_SERVER_ERROR]]
    /\ IF saved
       THEN reports' = [reports EXCEPT ![generating[p].report_id] = failed]
       ELSE UNCHANGED reports

\* Lines 132-137: get_object_or_404 reads the row into memory
DownloadGet(p, req) ==
    /\ downloading[p].pc = "idle"
    /\ StepsUnchanged
    /\ UNCHANGED <<reports, generating>>
    /\ downloading' = [downloading EXCEPT ![p] =
           IF ~Downloadable(req.user, req.report_id)
           THEN \* Http404 is an Exception: the broad handler answers 500
                [@ EXCEPT !.pc = "done",
                          !.status = HTTP_500_INTERNAL_SERVER_ERROR]
           ELSE [@ EXCEPT !.pc = "increment",
                          !.report_id = req.report_id,
                          !.report = Some(reports[req.report_id])]]

\* Lines 140-141: the count and the timestamp of the in-memory report
DownloadIncrement(p) ==
    /\ downloading[p].pc = "increment"
    /\ StepsUnchanged
    /\ UNCHANGED <<reports, generating>>
    /\ downloading' = [downloading EXCEPT ![p] =
           [@ EXCEPT !.pc = "save",
                     !.report = Some(Downloaded(Value(@)))]]

\* Line 142: save(update_fields=['download_count', 'last_accessed']) writes
\* the two fields of the in-memory report; lines 145-173 answer with the file
DownloadSave(p) ==
    LET report == Value(downloading[p].report) IN
    /\ downloading[p].pc = "save"
    /\ StepsUnchanged
    /\ UNCHANGED generating
    /\ reports' = [reports EXCEPT ![downloading[p].report_id] =
           [@ EXCEPT !.download_count = report.download_count,
                     !.last_accessed = report.last_accessed]]
    /\ downloading' = [downloading EXCEPT ![p] =
           [@ EXCEPT !.pc = "done", !.status = HTTP_200_OK]]

-----------------------------------------------------------------------------
(* recommendations/views.py, general_recommendations statement by           *)
(* statement: the calls' steps interleave, with no lock or transaction      *)
(* around the cache check, the service call, the row writes and cache.set.  *)

RecommendCalls == 1..MaxRecommendCalls

\* A call that has not started
IdleRecommend ==
    [pc |-> "idle", key |-> "", user |-> None, client_sid |-> None,
     exclude |-> {}, recs |-> <<>>, session_id |-> 0, idx |-> 0,
     missed |-> FALSE, response |-> None, status |-> 0]

RecommendStepsUnchanged ==
    UNCHANGED <<now, reports, schedules, products, comparisons, ntracks, last,
                likes, behavior_logs, generating, downloading>>

\* Lines 31-40: validation, then cache.get(cache_key)
RecommendGet(p, req) ==
    LET key == GeneralCacheKey(req.limit)
        cached == CacheGet(key)
    IN
    /\ recommending[p].pc = "idle"
    /\ RecommendStepsUnchanged
    /\ UNCHANGED <<cache, sessions, results, served>>
    /\ recommending' = [recommending EXCEPT ![p] =
           IF ~req.valid
           THEN [@ EXCEPT !.pc = "done", !.status = HTTP_400_BAD_REQUEST]
           ELSE IF Truthy(cached)
           THEN [@ EXCEPT !.pc = "done", !.key = key,
                          !.status = HTTP_200_OK, !.response = cached]
           ELSE [@ EXCEPT !.pc = "service", !.key = key, !.missed = TRUE,
                          !.user = req.user, !.client_sid = req.session_id,
                          !.exclude = req.exclude_products]]

\* Lines 43-48: the service call returns a list or raises (lines 82-87)
RecommendService(p) ==
    /\ recommending[p].pc = "service"
    /\ RecommendStepsUnchanged
    /\ UNCHANGED <<cache, sessions, results, served>>
    /\ \/ recommending' = [recommending EXCEPT ![p] =
              [@ EXCEPT !.pc = "done",
                        !.status = HTTP_500_INTERNAL_SERVER_ERROR]]
       \/ \E recs \in RecLists("trending", recommending[p].exclude) :
              recommending' = [recommending EXCEPT ![p] =
                  [@ EXCEPT !.pc = "session", !.recs = recs]]

\* Lines 51-55: RecommendationSession.objects.create(...)
RecommendSession(p) ==
    /\ recommending[p].pc = "session"
    /\ RecommendStepsUnchanged
    /\ UNCHANGED <<cache, results, served>>
    /\ Len(sessions) < MaxSessions
    /\ sessions' = Append(sessions,
                          NewSession(recommending[p].user,
                                     recommending[p].client_sid, "general"))
    /\ recommending' = [recommending EXCEPT ![p] =
           [@ EXCEPT !.pc = "results", !.session_id = Len(sessions) + 1]]

\* Lines 58-65: one turn of the loop, one RecommendationResult row
RecommendResult(p) ==
    LET call == recommending[p] IN
    /\ call.pc = "results"
    /\ call.idx < Len(call.recs)
    /\ RecommendStepsUnchanged
    /\ UNCHANGED <<cache, sessions, served>>
    /\ results' = Append(results,
                         NewResult(call.session_id, call.recs[call.idx + 1],
                                   call.idx))
    /\ recommending' = [recommending EXCEPT ![p] = [@ EXCEPT !.idx = @ + 1]]

\* Lines 67-80: the response is composed, stored in the cache and returned
RecommendSet(p) ==
    LET call == recommending[p]
        data == ResponseData(call.session_id, call.recs, "general",
                             "Trending and popular products")
    IN
    /\ call.pc = "results"
    /\ call.idx = Len(call.recs)
    /\ RecommendStepsUnchanged
    /\ UNCHANGED <<sessions, results>>
    /\ cache' = CacheSet(call.key, CachedData(data), GENERAL_TTL)
    /\ served' = [served EXCEPT ![call.key] = Some(data)]
    /\ recommending' = [recommending EXCEPT ![p] =
           [@ EXCEPT !.pc = "done", !.status = HTTP_200_OK,
                     !.response = Some(data)]]

\* timezone.now() advances
Tick ==
    /\ now + TickStep <= MaxNow
    /\ now' = now + TickStep
    /\ UNCHANGED <<cache, sessions, results, reports, schedules, products,
                   comparisons, served, ntracks, last, likes, behavior_logs,
                   generating, downloading, recommending>>

-----------------------------------------------------------------------------

InitTables ==
    /\ now = 0
    /\ cache = [k \in CacheKeys |-> None]
    /\ sessions = <<>>
    /\ results = <<>>
    /\ reports = <<>>
    /\ schedules = <<>>
    /\ comparisons = <<>>
    /\ served = [k \in CacheKeys |-> None]
    /\ ntracks = 0
    /\ last = [op |-> "init", status |-> 0, body |-> ErrorBody("")]
    /\ likes = {}
    /\ behavior_logs = <<>>
    /\ generating = [p \in GenerateCalls |-> IdleCall]
    /\ downloading = [p \in DownloadCalls |-> IdleCall]
    /\ recommending = [p \in RecommendCalls |-> IdleRecommend]

\* The Product table: each id is missing, inactive or active
Catalogs ==
    [CatalogIds -> {None, Some([is_active |-> FALSE]), Some([is_active |-> TRUE])}]

Init ==
    /\ InitTables
    /\ products = [p \in CatalogIds |-> Some([is_active |-> TRUE])]

InitCatalog ==
    /\ InitTables
    /\ products \in Catalogs

\* Requests of the recommendation endpoints (RecommendationRequestSerializer)
GeneralRequests ==
    [user : {None, Some(1)}, valid : BOOLEAN, limit : {None, Some(10)},
     exclude_products : ExcludeSets, session_id : ClientSessionIds]

PersonalizedRequests ==
    [user : {Some(u) : u \in Users}, valid : BOOLEAN, limit : {None, Some(10)},
     exclude_products : ExcludeSets, session_id : ClientSessionIds]

NextRecommendations ==
    \/ \E req \in GeneralRequests : GeneralRecommendations(req)
    \/ \E req \in PersonalizedRequests : PersonalizedRecommendations(req)
    \/ Tick

SpecRecommendations == Init /\ [][NextRecommendations]_vars

\* Requests of the tracking endpoint (RecommendationFeedbackSerializer): the
\* valid ones, with a client timestamp or none for 'click' (the only branch
\* that reads it), and one the serializer rejects
TrackRequests ==
    [valid : {TRUE}, session_id : 1..MaxSessions, product_id : ProductIds,
     action : {"click"}, timestamp : ClientTimestamps]
    \cup
    [valid : {TRUE}, session_id : 1..MaxSessions, product_id : ProductIds,
     action : TrackActions \ {"click"}, timestamp : {None}]
    \cup
    [valid : {FALSE}, session_id : {1}, product_id : {1},
     action : {"click"}, timestamp : {None}]

\* The recommendation requests that fill the tables the tracking calls act on
TrackedRequests ==
    [user : {None}, valid : {TRUE}, limit : RequestLimits,
     exclude_products : {{}}, session_id : ClientSessionIds]

NextTracking ==
    \/ \E req \in TrackedRequests : GeneralRecommendations(req)
    \/ \E req \in TrackRequests : TrackRecommendationInteraction(req)

SpecTracking == Init /\ [][NextTracking]_vars

\* Requests of the report endpoints
GenerateRequests == [user : Users, valid : BOOLEAN]

ReportRequests == [user : Users, report_id : 1..MaxReports]

DownloadRequests ==
    [user : Users, report_id : 1..MaxReports, format : {"json", "csv"}]

NextReports ==
    \/ \E req \in GenerateRequests, outcome \in ReportOutcomes :
          GenerateReport(req, outcome)
    \/ \E req \in ReportRequests : RetrieveReport(req)
    \/ \E req \in DownloadRequests : DownloadReport(req)
    \/ \E req \in ReportRequests : ReportStatus(req)
    \/ Tick

SpecReports == Init /\ [][NextReports]_vars

\* Requests of the schedule endpoint (ReportScheduleSerializer)
ScheduleRequests == [user : Users, valid : BOOLEAN, frequency : Frequencies]

NextSchedules ==
    \/ \E req \in ScheduleRequests : CreateSchedule(req)
    \/ \E user \in Users : ListSchedules(user)
    \/ Tick

SpecSchedules == Init /\ [][NextSchedules]_vars

\* Lists of product ids, repeated ids included
ProductIdLists ==
    UNION {[1..n -> CatalogIds] : n \in 1..MaxProductIds}

\* Requests of the product comparison endpoint
\* (ProductComparisonRequestSerializer)
CompareRequests ==
    [user : {None, Some(1)}, valid : BOOLEAN, product_ids : ProductIdLists]

NextComparisons ==
    \E req \in CompareRequests, outcome \in ComparisonOutcomes :
        CompareProducts(req, outcome)

SpecComparisons == InitCatalog /\ [][NextComparisons]_vars

\* The catalog of the lookup endpoints: product 1 is active, product 2 is
\* inactive and no product has slug 3
InitLookups ==
    /\ InitTables
    /\ products = [p \in CatalogIds |->
                      IF p = 1 THEN Some([is_active |-> TRUE])
                      ELSE IF p = 2 THEN Some([is_active |-> FALSE])
                      ELSE None]

\* Requests of the like and similar-products endpoints
LikeRequests == [user : Users, slug : CatalogIds]

SimilarRequests == [slug : CatalogIds]

\* The endpoints that look an entity up with get_object_or_404, and report
\* generation to fill the table they read
NextLookups ==
    \/ \E req \in GenerateRequests, outcome \in ReportOutcomes :
          GenerateReport(req, outcome)
    \/ \E req \in DownloadRequests : DownloadReport(req)
    \/ \E req \in ReportRequests : ReportStatus(req)
    \/ \E req \in LikeRequests : ToggleProductLike(req)
    \/ \E req \in SimilarRequests, outcome \in SimilarOutcomes :
          SimilarProducts(req, outcome)

SpecLookups == InitLookups /\ [][NextLookups]_vars

\* Requests of one user to the report endpoints while calls are in flight
OwnGenerateRequests == [user : {1}, valid : BOOLEAN]

OwnReportRequests == [user : {1}, report_id : 1..MaxReports]

OwnDownloadRequests == [user : {1}, report_id : 1..MaxReports, format : {"json"}]

\* Report generation running step by step, with the other report endpoints
\* answering between its steps
NextGenerateSteps ==
    \/ \E p \in GenerateCalls, req \in OwnGenerateRequests : GenerateCreate(p, req)
    \/ \E p \in GenerateCalls, outcome \in ReturnedOutcomes : GenerateCall(p, outcome)
    \/ \E p \in GenerateCalls : GenerateAssign(p)
    \/ \E p \in GenerateCalls, saved \in BOOLEAN : GenerateSave(p, saved)
    \/ \E p \in GenerateCalls, saved \in BOOLEAN : GenerateExcept(p, saved)
    \/ \E req \in OwnReportRequests : RetrieveReport(req)
    \/ \E req \in OwnDownloadRequests : DownloadReport(req)
    \/ \E req \in OwnReportRequests : ReportStatus(req)
    \/ Tick

SpecGenerateSteps == Init /\ [][NextGenerateSteps]_vars

\* Downloads running step by step, of reports generated in one step
NextDownloadSteps ==
    \/ \E req \in OwnGenerateRequests, outcome \in ReportOutcomes :
          GenerateReport(req, outcome)
    \/ \E p \in DownloadCalls, req \in OwnDownloadRequests : DownloadGet(p, req)
    \/ \E p \in DownloadCalls : DownloadIncrement(p)
    \/ \E p \in DownloadCalls : DownloadSave(p)
    \/ Tick

SpecDownloadSteps == Init /\ [][NextDownloadSteps]_vars

\* Requests of concurrent anonymous callers of general_recommendations
ConcurrentRequests ==
    [user : {None}, valid : BOOLEAN, limit : RequestLimits,
     exclude_products : {{}}, session_id : ClientSessionIds]

NextRecommendSteps ==
    \/ \E p \in RecommendCalls, req \in ConcurrentRequests : RecommendGet(p, req)
    \/ \E p \in RecommendCalls : RecommendService(p)
    \/ \E p \in RecommendCalls : RecommendSession(p)
    \/ \E p \in RecommendCalls : RecommendResult(p)
    \/ \E p \in RecommendCalls : RecommendSet(p)
    \/ Tick

SpecRecommendSteps == Init /\ [][NextRecommendSteps]_vars

-----------------------------------------------------------------------------
(* Properties of the recommendation endpoints *)

\* The entry stored under key is inside its TTL window
WithinTTL(key) == cache[key] # None /\ now < Value(cache[key]).expires

\* The step answers from the cache what the filling call answered, and
\* creates no row
AnsweredFromCache(key) ==
    /\ last'.status = HTTP_200_OK
    /\ last'.body = Value(served[key])
    /\ sessions' = sessions
    /\ results' = results

\* C1: a recommendation request whose cache key was filled by an earlier
\* call and is still inside that call's TTL window is answered with the very
\* response of that call (session_id, recommendations, total_count,
\* algorithm_info) and creates no RecommendationSession or
\* RecommendationResult row.
C1_CacheHitIdentical ==
    [][/\ \A req \in GeneralRequests :
            (/\ req.valid
             /\ WithinTTL(GeneralCacheKey(req.limit))
             /\ GeneralRecommendations(req))
               => AnsweredFromCache(GeneralCacheKey(req.limit))
       /\ \A req \in PersonalizedRequests :
            (/\ req.valid
             /\ WithinTTL(PersonalizedCacheKey(Value(req.user), req.limit))
             /\ PersonalizedRecommendations(req))
               => AnsweredFromCache(PersonalizedCacheKey(Value(req.user), req.limit))
      ]_vars

\* A second session exists and a general request has just been answered
\* with the first session's response: that answer came from the cache.
C1_Witness ==
    /\ Len(sessions) = 2
    /\ sessions[2].recommendation_type = "personalized"
    /\ last.op = "general"
    /\ last.status = HTTP_200_OK
    /\ last.body.session_id = 1
    /\ last.body.total_count = 2

\* The rows and the cache entry a successful miss for key leaves behind
MissPersisted(key) ==
    LET n == Len(last'.body.recommendations)
        sid == Len(sessions')
        base == Len(results)
    IN /\ Len(sessions') = Len(sessions) + 1
       /\ SubSeq(sessions', 1, Len(sessions)) = sessions
       /\ Len(results') = base + n
       /\ SubSeq(results', 1, base) = results
       /\ \A i \in 1..n :
            /\ results'[base + i].session = sid
            /\ results'[base + i].position = i
            /\ results'[base + i].product_id = last'.body.recommendations[i].product_id
            /\ results'[base + i].score = last'.body.recommendations[i].score
            /\ results'[base + i].algorithm_used = last'.body.recommendations[i].algorithm
       /\ last'.body.session_id = sid
       /\ last'.body.total_count = n
       /\ cache'[key] # None
       /\ Value(cache'[key]).value = last'.body
       /\ Value(cache'[key]).expires > now

\* C8: a request that misses the cache and is answered 200 creates exactly
\* one session and one result row per returned recommendation, in order,
\* with positions 1..n; the response names the new session, total_count is
\* n, and the response is stored in the cache under the request's key.
C8_MissPersistsRanking ==
    [][/\ \A req \in GeneralRequests :
            (/\ req.valid
             /\ last'.status = HTTP_200_OK
             /\ ~WithinTTL(GeneralCacheKey(req.limit))
             /\ GeneralRecommendations(req))
               => MissPersisted(GeneralCacheKey(req.limit))
       /\ \A req \in PersonalizedRequests :
            (/\ req.valid
             /\ last'.status = HTTP_200_OK
             /\ ~WithinTTL(PersonalizedCacheKey(Value(req.user), req.limit))
             /\ PersonalizedRecommendations(req))
               => MissPersisted(PersonalizedCacheKey(Value(req.user), req.limit))
      ]_vars

\* A miss has just stored two ranked rows after an earlier session's rows
C8_Witness ==
    /\ Len(sessions) = 2
    /\ Len(results) = 3
    /\ results[2].session = 2 /\ results[2].position = 1
    /\ results[3].session = 2 /\ results[3].position = 2
    /\ last.status = HTTP_200_OK
    /\ last.body.session_id = 2
    /\ last.body.total_count = 2

-----------------------------------------------------------------------------
(* Properties of interaction tracking *)

NoRowFor(sid, pid) ==
    \A i \in 1..Len(results) :
        ~(results[i].session = sid /\ results[i].product_id = pid)

\* C4: a valid tracking call whose (session_id, product_id) pair matches no
\* RecommendationResult row is answered 404 and changes no row.
C4_TrackUnknownIs404 ==
    [][\A req \in TrackRequests :
          (/\ req.valid
           /\ last'.op = "track"
           /\ NoRowFor(req.session_id, req.product_id)
           /\ TrackRecommendationInteraction(req))
             => (last'.status = HTTP_404_NOT_FOUND /\ results' = results)
      ]_vars

\* A tracking call was answered 404 while rows of two sessions exist
C4_Witness ==
    /\ last.op = "track"
    /\ last.status = HTTP_404_NOT_FOUND
    /\ Len(sessions) = 2
    /\ Len(results) >= 2

\* C9: there is at most one RecommendationResult row per (session, product).
C9_OneResultPerSessionProduct ==
    \A i, j \in 1..Len(results) :
        (results[i].session = results[j].session
            /\ results[i].product_id = results[j].product_id) => i = j

\* Row i is the only row for (sid, pid)
OnlyRowFor(i, sid, pid) ==
    /\ results[i].session = sid
    /\ results[i].product_id = pid
    /\ \A j \in 1..Len(results) :
         (results[j].session = sid /\ results[j].product_id = pid) => j = i

\* The row an action is meant to leave behind
Tracked(row, req) ==
    LET ts == IF req.timestamp = None THEN now ELSE Value(req.timestamp) IN
    [session |-> row.session,
     product_id |-> row.product_id,
     score |-> row.score,
     position |-> row.position,
     algorithm_used |-> row.algorithm_used,
     was_clicked |-> (row.was_clicked \/ req.action = "click"),
     click_timestamp |->
         IF req.action = "click" THEN Some(ts) ELSE row.click_timestamp,
     was_added_to_cart |-> (row.was_added_to_cart \/ req.action = "add_to_cart"),
     was_purchased |-> (row.was_purchased \/ req.action = "purchase")]

\* C10: a valid tracking call that finds its row is answered 200; 'click'
\* sets was_clicked and click_timestamp only, 'add_to_cart' only
\* was_added_to_cart, 'purchase' only was_purchased, any other action
\* nothing; no tracking call resets a flag, or changes score, position,
\* algorithm or any other row.
C10_TrackFrame ==
    [][\A req \in TrackRequests :
          (last'.op = "track" /\ TrackRecommendationInteraction(req)) =>
            /\ Len(results') = Len(results)
            /\ \A i \in 1..Len(results) :
                 IF req.valid /\ OnlyRowFor(i, req.session_id, req.product_id)
                 THEN /\ results'[i] = Tracked(results[i], req)
                      /\ last'.status = HTTP_200_OK
                 ELSE results'[i] = results[i]
      ]_vars

\* A click has been recorded on one row while the other row of the same
\* session, already marked purchased, kept its state
C10_Witness ==
    /\ last.op = "track"
    /\ last.status = HTTP_200_OK
    /\ Len(results) >= 2
    /\ results[1].session = results[2].session
    /\ results[1].was_purchased /\ ~results[1].was_clicked
    /\ results[2].was_clicked /\ results[2].click_timestamp = Some(7)
    /\ ~results[2].was_purchased /\ ~results[2].was_added_to_cart

-----------------------------------------------------------------------------
(* Properties of report generation and download *)

C5_DownloadCounts ==
    [][\A req \in DownloadRequests :
          (/\ last'.op = "download"
           /\ req.report_id \in 1..Len(reports)
           /\ reports[req.report_id].status = "completed"
           /\ reports[req.report_id].generated_by = req.user
           /\ DownloadReport(req)) =>
             /\ last'.status = HTTP_200_OK
             /\ last'.body = [file |-> req.format, report |-> req.report_id]
             /\ Len(reports') = Len(reports)
             /\ \A i \in 1..Len(reports) :
                  IF i = req.report_id
                  THEN /\ reports'[i].download_count = reports[i].download_count + 1
                       /\ reports'[i].last_accessed = Some(now)
                       /\ [reports'[i] EXCEPT !.download_count = 0, !.last_accessed = None]
                            = [reports[i] EXCEPT !.download_count = 0, !.last_accessed = None]
                  ELSE reports'[i] = reports[i]
      ]_vars

\* The second of two downloads of report 1, made later than the first, has
\* just been answered with a file; report 2 was never downloaded
C5_Witness ==
    /\ Len(reports) = 2
    /\ reports[1].download_count = 2
    /\ reports[1].last_accessed = Some(now)
    /\ now = MaxNow - (MaxNow % TickStep)
    /\ reports[2].status = "completed"
    /\ reports[2].download_count = 0
    /\ last.op = "download" /\ last.status = HTTP_200_OK

\* C6: a download request for an existing report that is not 'completed', or
\* that was generated by another user, is answered with an error and no
\* file, and leaves every report (download_count, last_accessed) unchanged.
C6_DownloadGated ==
    [][\A req \in DownloadRequests :
          (/\ last'.op = "download"
           /\ req.report_id \in 1..Len(reports)
           /\ \/ reports[req.report_id].status # "completed"
              \/ reports[req.report_id].generated_by # req.user
           /\ DownloadReport(req)) =>
             /\ last'.status >= HTTP_400_BAD_REQUEST
             /\ "error" \in DOMAIN last'.body
             /\ "file" \notin DOMAIN last'.body
             /\ reports' = reports
      ]_vars

\* A download was refused while a failed report and a completed report of
\* another user exist, neither ever downloaded
C6_Witness ==
    /\ Len(reports) = 2
    /\ reports[1].status = "failed"
    /\ reports[2].status = "completed"
    /\ reports[1].generated_by # reports[2].generated_by
    /\ reports[1].download_count = 0 /\ reports[2].download_count = 0
    /\ last.op = "download"
    /\ last.status = HTTP_500_INTERNAL_SERVER_ERROR

-----------------------------------------------------------------------------
(* Properties of schedule creation *)

\* The interval table of the schedule contract, in days
IntervalDays(frequency) ==
    IF frequency = "daily" THEN 1
    ELSE IF frequency = "weekly" THEN 7
    ELSE IF frequency = "monthly" THEN 30
    ELSE IF frequency = "quarterly" THEN 90
    ELSE 1

SecondsPerDay == 24 * 60 * 60

\* C7: the schedule a valid create request stores has next_run minus its
\* creation time equal to 1, 7, 30, 90 days for daily, weekly, monthly,
\* quarterly and 1 day for any other frequency; no step changes the
\* next_run of a stored schedule.
C7_NextRunInterval ==
    [][/\ \A req \in ScheduleRequests :
            (req.valid /\ last'.op = "schedule" /\ CreateSchedule(req)) =>
               LET schedule == schedules'[Len(schedules')] IN
               /\ Len(schedules') = Len(schedules) + 1
               /\ schedule.frequency = req.frequency
               /\ schedule.created_at = now
               /\ schedule.next_run - schedule.created_at
                    = IntervalDays(req.frequency) * SecondsPerDay
       /\ \A i \in 1..Len(schedules) :
            /\ i <= Len(schedules')
            /\ schedules'[i].next_run = schedules[i].next_run
      ]_vars

\* A weekly schedule created after the clock advanced, and a quarterly one
C7_Witness ==
    /\ Len(schedules) = 2
    /\ schedules[1].frequency = "weekly"
    /\ schedules[1].created_at = TickStep
    /\ schedules[1].next_run = TickStep + 7 * SecondsPerDay
    /\ schedules[2].frequency = "quarterly"
    /\ schedules[2].next_run - schedules[2].created_at = 90 * SecondsPerDay

-----------------------------------------------------------------------------
(* Properties of product comparison *)

\* Some submitted id is missing or refers to an inactive product
SomeMissingOrInactive(productIds) ==
    \E i \in 1..Len(productIds) :
        \/ productIds[i] \notin DOMAIN products
        \/ products[productIds[i]] = None
        \/ ~Value(products[productIds[i]]).is_active

\* The list names some id more than once
SomeRepeated(productIds) ==
    \E i, j \in 1..Len(productIds) : i # j /\ productIds[i] = productIds[j]

SubmittedSet(productIds) == {productIds[i] : i \in 1..Len(productIds)}

\* Exactly one ProductComparison row was created, for the submitted products
OneComparisonCreated(req) ==
    /\ Len(comparisons') = Len(comparisons) + 1
    /\ SubSeq(comparisons', 1, Len(comparisons)) = comparisons
    /\ comparisons'[Len(comparisons')].products = SubmittedSet(req.product_ids)

-----------------------------------------------------------------------------
(* Properties of the cache keys *)

\* The session a 200 response names exists, and has this owner and type
AnswerIsOf(owner, type) ==
    LET sid == last'.body.session_id IN
    /\ sid \in 1..Len(sessions')
    /\ sessions'[sid].user = owner
    /\ sessions'[sid].recommendation_type = type
    /\ last'.body.algorithm_info.type = type

\* C11: every 200 response of personalized_recommendations names a
\* personalized session created for the requesting user, whether computed or
\* served from the cache, and lists only recommendations of the
\* personalized algorithm; every 200 response of general_recommendations
\* names a general session and lists only recommendations of the general
\* algorithm.
C11_NoCrossUserResponse ==
    [][/\ \A req \in PersonalizedRequests :
            (/\ req.valid
             /\ last'.op = "personalized"
             /\ last'.status = HTTP_200_OK
             /\ PersonalizedRecommendations(req))
               => /\ AnswerIsOf(req.user, "personalized")
                  /\ \A i \in 1..Len(last'.body.recommendations) :
                       last'.body.recommendations[i].algorithm = "collaborative"
       /\ \A req \in GeneralRequests :
            (/\ req.valid
             /\ last'.op = "general"
             /\ last'.status = HTTP_200_OK
             /\ GeneralRecommendations(req))
               => /\ last'.body.session_id \in 1..Len(sessions')
                  /\ sessions'[last'.body.session_id].recommendation_type = "general"
                  /\ last'.body.algorithm_info.type = "general"
                  /\ \A i \in 1..Len(last'.body.recommendations) :
                       last'.body.recommendations[i].algorithm = "trending"
      ]_vars

\* Two users each hold a personalized session, and the first user has just
\* been answered from the cache with the first session
C11_Witness ==
    /\ Len(sessions) = 2
    /\ sessions[1].user = Some(1) /\ sessions[1].recommendation_type = "personalized"
    /\ sessions[2].user = Some(2) /\ sessions[2].recommendation_type = "personalized"
    /\ cache[PersonalizedCacheKey(1, None)] # None
    /\ cache[PersonalizedCacheKey(2, None)] # None
    /\ last.op = "personalized"
    /\ last.status = HTTP_200_OK
    /\ last.body.session_id = 1

-----------------------------------------------------------------------------
(* Properties of report generation running step by step *)

\* Call p, which created report i, takes its saving step
SavesOwnReport(p, i) ==
    /\ generating[p].report_id = i
    /\ generating[p].pc \in {"save", "except"}
    /\ generating'[p].pc = "done"

\* C12: no report row is ever removed; a new row has status 'pending'; the
\* status of a row changes only from 'pending' to 'completed' or 'failed',
\* and only in the saving step of the generate call that created the row, so
\* no retrieve, download, status query or other generate call changes it;
\* and every valid generate request appends a row of its own.
C12_StatusLifecycle ==
    [][/\ Len(reports') >= Len(reports)
       /\ \A i \in 1..Len(reports) :
            reports'[i].status # reports[i].status =>
                /\ reports[i].status = "pending"
                /\ reports'[i].status \in {"completed", "failed"}
                /\ \E p \in GenerateCalls : SavesOwnReport(p, i)
       /\ \A i \in (Len(reports) + 1)..Len(reports') :
            reports'[i].status = "pending"
       /\ \A p \in GenerateCalls, req \in OwnGenerateRequests :
            (req.valid /\ generating[p].pc = "idle" /\ GenerateCreate(p, req)) =>
                /\ Len(reports') = Len(reports) + 1
                /\ SubSeq(reports', 1, Len(reports)) = reports
                /\ generating'[p].report_id = Len(reports')
      ]_vars

\* The first report failed and was later retrieved; a second generate call
\* made its own report, which completed and was downloaded
C12_Witness ==
    /\ Len(reports) = 2
    /\ reports[1].status = "failed"
    /\ reports[1].last_accessed = Some(MaxNow)
    /\ reports[2].status = "completed"
    /\ reports[2].completed_at = Some(TickStep)
    /\ reports[2].download_count = 1
    /\ generating[1].report_id = 1 /\ generating[1].pc = "done"
    /\ generating[2].report_id = 2 /\ generating[2].pc = "done"

-----------------------------------------------------------------------------
(* Properties of the error responses *)

\* C13: a report-generation request with malformed input is answered 400
\* with the field errors and creates no GeneratedReport row.
C13_MalformedIs400 ==
    [][\A req \in GenerateRequests, outcome \in ReportOutcomes :
          (~req.valid /\ last'.op = "generate" /\ GenerateReport(req, outcome)) =>
             /\ last'.status = HTTP_400_BAD_REQUEST
             /\ reports' = reports
      ]_vars

\* The step answers 404 and leaves every table as it was
NotFoundNoChange ==
    /\ last'.status = HTTP_404_NOT_FOUND
    /\ reports' = reports
    /\ likes' = likes
    /\ behavior_logs' = behavior_logs

\* C14: download_report and report_status for a report id with no row of the
\* requesting user, and similar_products and toggle_product_like for a slug
\* with no active product, answer 404 and change no stored state.
C14_MissingIs404 ==
    [][/\ \A req \in DownloadRequests :
            (/\ last'.op = "download"
             /\ ~OwnReport(req.user, req.report_id)
             /\ DownloadReport(req)) => NotFoundNoChange
       /\ \A req \in ReportRequests :
            (/\ last'.op = "status"
             /\ ~OwnReport(req.user, req.report_id)
             /\ ReportStatus(req)) => NotFoundNoChange
       /\ \A req \in LikeRequests :
            (/\ last'.op = "like"
             /\ ~ActiveProduct(req.slug)
             /\ ToggleProductLike(req)) => NotFoundNoChange
       /\ \A req \in SimilarRequests, outcome \in SimilarOutcomes :
            (/\ last'.op = "similar"
             /\ ~ActiveProduct(req.slug)
             /\ SimilarProducts(req, outcome)) => NotFoundNoChange
      ]_vars

-----------------------------------------------------------------------------
(* Properties of concurrent calls *)

\* Call p has just stored its response: the entry of its key is that response
WroteLast(p) ==
    /\ cache'[recommending[p].key] # None
    /\ Value(cache'[recommending[p].key]).value = Value(recommending'[p].response)
    /\ Value(recommending'[p].response).session_id = recommending[p].session_id

\* The session a finished call answered with exists
SessionExists(call) ==
    (call.pc = "done" /\ call.status = HTTP_200_OK) =>
        Value(call.response).session_id \in 1..Len(sessions')

\* C15: calls that missed the cache each hold a session of their own; the
\* step in which a call executes cache.set leaves under its key exactly that
\* call's response, whatever another call stored there before; no session
\* row is ever removed, and the session_id of every 200 response refers to
\* an existing session.
C15_ConcurrentMisses ==
    [][/\ \A p \in RecommendCalls :
            (recommending[p].pc = "results" /\ recommending'[p].pc = "done")
                => WroteLast(p)
       /\ \A p \in RecommendCalls : SessionExists(recommending'[p])
       /\ Len(sessions') >= Len(sessions)
       /\ SubSeq(sessions', 1, Len(sessions)) = sessions
       /\ \A p, q \in RecommendCalls :
            (p # q /\ recommending'[p].session_id # 0)
                => recommending'[p].session_id # recommending'[q].session_id
      ]_vars

\* Two calls of the same key both missed, each created a session and rows;
\* the call that created the second session stored its response first, and
\* the cache now holds the response of the other call, which wrote last
C15_Witness ==
    /\ \A p \in {1, 2} :
         /\ recommending[p].pc = "done"
         /\ recommending[p].missed
         /\ recommending[p].status = HTTP_200_OK
         /\ recommending[p].key = GeneralCacheKey(None)
         /\ Len(recommending[p].recs) = 1
    /\ recommending[1].session_id = 1
    /\ recommending[2].session_id = 2
    /\ Len(sessions) = 2
    /\ Len(results) = 2
    /\ results[1].session = 2 /\ results[2].session = 1
    /\ Value(cache[GeneralCacheKey(None)]).value = Value(recommending[1].response)
    /\ Value(cache[GeneralCacheKey(None)]).expires = TickStep + GENERAL_TTL
    /\ served[GeneralCacheKey(None)] = recommending[1].response

\* The download calls that returned a file of report i
FilesReturned(i) ==
    {p \in DownloadCalls :
        /\ downloading[p].pc = "done"
        /\ downloading[p].status = HTTP_200_OK
        /\ downloading[p].report_id = i}

\* No download call is between its read and its save
NoDownloadInFlight ==
    \A p \in DownloadCalls : downloading[p].pc \in {"idle", "done"}

\* C16: once the download calls have finished, the download_count of every
\* report equals the number of calls that returned a file of it, in every
\* interleaving of the calls' read, increment and save steps.
C16_EveryDownloadCounted ==
    NoDownloadInFlight =>
        \A i \in 1..Len(reports) :
            reports[i].download_count = Cardinality(FilesReturned(i))

\* C17: every report with status 'failed' has raw_data, ai_summary_text,
\* visualizations and completed_at unset, whichever step of the generation
\* raised.
C17_FailedHasNoPayload ==
    \A i \in 1..Len(reports) :
        reports[i].status = "failed" =>
            /\ reports[i].raw_data = None
            /\ reports[i].ai_summary_text = None
            /\ reports[i].visualizations = None
            /\ reports[i].completed_at = None

\* No product of the 200 response is in the excluded set
HonoursExclusion(exclude) ==
    \A i \in 1..Len(last'.body.recommendations) :
        last'.body.recommendations[i].product_id \notin exclude

\* C18: given a service that returns no excluded product, no 200 response of
\* general_recommendations or personalized_recommendations lists a product
\* of its own request's exclude_products, responses served from the cache
\* included.
C18_ResponseHonoursExclusion ==
    [][/\ \A req \in GeneralRequests :
            (/\ req.valid
             /\ last'.op = "general"
             /\ last'.status = HTTP_200_OK
             /\ GeneralRecommendations(req))
               => HonoursExclusion(req.exclude_products)
       /\ \A req \in PersonalizedRequests :
            (/\ req.valid
             /\ last'.op = "personalized"
             /\ last'.status = HTTP_200_OK
             /\ PersonalizedRecommendations(req))
               => HonoursExclusion(req.exclude_products)
      ]_vars

-----------------------------------------------------------------------------
(* The whole system *)

Next ==
    \/ NextRecommendations
    \/ NextTracking
    \/ NextReports
    \/ NextSchedules
    \/ NextComparisons
    \/ NextLookups
    \/ NextGenerateSteps
    \/ NextDownloadSteps
    \/ NextRecommendSteps

Spec == Init /\ [][Next]_vars
====
